---- MODULE Spec2Model ----
(***************************************************************************)
(* Verification model of the security core of whatsapp_python:             *)
(*   src/src/media.py       WhatsappMedia  (download / verify / decrypt)   *)
(*   src/src/encryption.py  WhatsappEncryption (flow request / response)   *)
(*                                                                         *)
(* Byte strings are sequences of 0..255.  Text strings that the code       *)
(* compares or decodes (hash fields, base64 envelopes) are sequences of    *)
(* ASCII codes.  Messages returned to the caller are TLA+ strings.         *)
(* The library primitives (SHA-256, HMAC, AES, RSA-OAEP, AES-GCM) are      *)
(* replaced by small deterministic stand-ins with the same interface,      *)
(* the same sizes and the same failure conditions.                         *)
(***************************************************************************)
EXTENDS Integers, Sequences, FiniteSets, TLC

\* ------------------------------------------------------------------------
\* Sizes fixed by the code and the primitives it calls
\* ------------------------------------------------------------------------
BlockSize == 16
TagLen == 10
DigestLen == 32
GcmTagLen == 16

\* ------------------------------------------------------------------------
\* Bounds of the model
\* ------------------------------------------------------------------------
MaxSrcLen == 1

\* Python's None, as a value comparable with byte and text sequences
None == <<-1>>

\* ------------------------------------------------------------------------
\* Sequence helpers (Python slicing)
\* ------------------------------------------------------------------------
Min(a, b) == IF a < b THEN a ELSE b
Max(a, b) == IF a > b THEN a ELSE b

\* s[:n] for n >= 0
Take(s, n) == SubSeq(s, 1, Min(n, Len(s)))
\* s[n:] for n >= 0
Drop(s, n) == SubSeq(s, Min(n, Len(s)) + 1, Len(s))
\* s[-n:]  (the whole of s when it is shorter than n)
LastN(s, n) == Drop(s, Max(Len(s) - n, 0))
\* s[:-n]  (empty when s is not longer than n)
AllButLastN(s, n) == Take(s, Max(Len(s) - n, 0))

Repeat(b, n) == [i \in 1..n |-> b]

RECURSIVE XorN(_, _, _)
XorN(a, b, n) ==
    IF n = 0 THEN 0
    ELSE (((a % 2) + (b % 2)) % 2) + 2 * XorN(a \div 2, b \div 2, n - 1)

\* byte ^ byte
Xor(a, b) == XorN(a, b, 8)

XorSeq(s, t) == [i \in 1..Len(s) |-> Xor(s[i], t[i])]

\* ------------------------------------------------------------------------
\* hashlib.sha256 / hmac.new(..., hashlib.sha256): stand-in digests
\* ------------------------------------------------------------------------
\* modulus of the stand-in compression
HashMod == 32749

RECURSIVE PowMod(_, _)
PowMod(b, e) ==
    IF e = 0 THEN 1
    ELSE LET h == PowMod(b, e \div 2)
         IN  (((h * h) % HashMod) * (IF (e % 2) = 1 THEN b ELSE 1)) % HashMod

RECURSIVE Poly(_, _, _)
\* sum of (m[i] + 1) * 33^(hi - i) over lo..hi, by halving
Poly(m, lo, hi) ==
    IF lo > hi THEN 0
    ELSE IF lo = hi THEN m[lo] + 1
    ELSE LET mid == (lo + hi) \div 2
         IN  (Poly(m, lo, mid) * PowMod(33, hi - mid) + Poly(m, mid + 1, hi)) % HashMod

\* every byte and the length of the message enter the accumulator
Absorb(m) == (5381 * PowMod(33, Len(m)) + Poly(m, 1, Len(m))) % HashMod

\* hashlib.sha256(m).digest(): DigestLen bytes
Sha256(m) ==
    LET a == Absorb(m)
    IN  [i \in 1..DigestLen |->
            ((a % 256) * (2 * i + 1) + (a \div 256) * i + i) % 256]

\* hmac.new(key, msg, hashlib.sha256).digest()
HmacSha256(key, msg) ==
    Sha256(key \o <<92>> \o Sha256(key \o <<54>> \o msg))

\* ------------------------------------------------------------------------
\* Text encodings: bytes.hex(), base64.b64encode, base64.b64decode
\* ------------------------------------------------------------------------
HexDigit(n) == IF n < 10 THEN 48 + n ELSE 87 + n

\* bytes.hex(): two lowercase hex digits per byte
Hex(bs) ==
    [i \in 1..(2 * Len(bs)) |->
        IF (i % 2) = 1 THEN HexDigit(bs[(i + 1) \div 2] \div 16)
        ELSE HexDigit(bs[i \div 2] % 16)]

\* ASCII code of the base64 character of a 6-bit value
B64Char(v) ==
    IF v < 26 THEN 65 + v
    ELSE IF v < 52 THEN 97 + (v - 26)
    ELSE IF v < 62 THEN 48 + (v - 52)
    ELSE IF v = 62 THEN 43 ELSE 47

\* 6-bit value of a base64 character, -1 for a character outside the alphabet
B64Val(c) ==
    IF c >= 65 /\ c <= 90 THEN c - 65
    ELSE IF c >= 97 /\ c <= 122 THEN c - 97 + 26
    ELSE IF c >= 48 /\ c <= 57 THEN c - 48 + 52
    ELSE IF c = 43 THEN 62
    ELSE IF c = 47 THEN 63
    ELSE -1

PadChar == 61

\* base64.b64encode(bs)
B64Encode(bs) ==
    LET n == Len(bs)
        groups == (n + 2) \div 3
        byteAt(k) == IF k <= n THEN bs[k] ELSE 0
        quad(g) ==
            LET b1 == byteAt(3 * g - 2)
                b2 == byteAt(3 * g - 1)
                b3 == byteAt(3 * g)
                have == n - 3 * (g - 1)
            IN  << B64Char(b1 \div 4),
                   B64Char((b1 % 4) * 16 + (b2 \div 16)),
                   IF have >= 2 THEN B64Char((b2 % 16) * 4 + (b3 \div 64)) ELSE PadChar,
                   IF have >= 3 THEN B64Char(b3 % 64) ELSE PadChar >>
    IN  [i \in 1..(4 * groups) |-> quad((i + 3) \div 4)[((i - 1) % 4) + 1]]

\* the outcome "b64decode raised" (binascii.Error, TypeError, ValueError)
DecodeError == <<-2>>

\* base64.b64decode(s) with validate=False: characters outside the alphabet
\* are discarded, decoding stops at the padding that completes a quad, and
\* a quad left incomplete is an error.  A value that is not text (None) is a
\* TypeError.  The result is a byte string, or DecodeError.
IsB64Data(c) == B64Val(c) >= 0

B64Decode(s) ==
    IF s = None THEN DecodeError
    ELSE
    LET n == Len(s)
        \* position in the quad when character i is read
        quadPos(i) == Cardinality({j \in 1..(i - 1) : IsB64Data(s[j])}) % 4
        \* padding characters read since the last data character, up to i
        padsAt(i) ==
            Cardinality({j \in 1..i :
                /\ s[j] = PadChar
                /\ \A k \in (j + 1)..i : ~IsB64Data(s[k])})
        stops == {i \in 1..n :
                    s[i] = PadChar /\ quadPos(i) >= 2 /\ quadPos(i) + padsAt(i) >= 4}
        stop == IF stops = {} THEN n + 1
                ELSE CHOOSE i \in stops : \A j \in stops : i <= j
        vals == SelectSeq(Take(s, stop - 1), IsB64Data)
        rem == Len(vals) % 4
        full == Len(vals) \div 4
        nbytes == 3 * full + (IF rem = 2 THEN 1 ELSE IF rem = 3 THEN 2 ELSE 0)
        v(k) == IF k <= Len(vals) THEN B64Val(vals[k]) ELSE 0
        byteOf(j) ==
            LET g == (j - 1) \div 3
                p == (j - 1) % 3
            IN  IF p = 0 THEN v(4 * g + 1) * 4 + (v(4 * g + 2) \div 16)
                ELSE IF p = 1 THEN (v(4 * g + 2) % 16) * 16 + (v(4 * g + 3) \div 4)
                ELSE (v(4 * g + 3) % 4) * 64 + v(4 * g + 4)
    IN  IF rem /= 0 /\ stops = {} THEN DecodeError
        ELSE [j \in 1..nbytes |-> byteOf(j)]

\* ------------------------------------------------------------------------
\* AES-CBC and PKCS7 (Crypto.Cipher.AES, Crypto.Util.Padding)
\* ------------------------------------------------------------------------
\* key lengths AES.new accepts
AesKeyLens == {16, 24, 32}

KeyByte(key, i) == key[((i - 1) % Len(key)) + 1]

\* the block permutation under a key, and its inverse
AesEncBlock(key, b) == [i \in 1..BlockSize |-> (b[i] + KeyByte(key, i) + i) % 256]
AesDecBlock(key, b) == [i \in 1..BlockSize |-> (b[i] + 512 - KeyByte(key, i) - i) % 256]

Block(s, j) == SubSeq(s, BlockSize * (j - 1) + 1, BlockSize * j)

RECURSIVE CbcEncrypt(_, _, _)
\* the producer's side: cipher.encrypt(padded) in CBC mode, prev is the IV
CbcEncrypt(key, prev, pt) ==
    IF Len(pt) = 0 THEN <<>>
    ELSE LET c == AesEncBlock(key, XorSeq(Block(pt, 1), prev))
         IN  c \o CbcEncrypt(key, c, Drop(pt, BlockSize))

RECURSIVE CbcDecrypt(_, _, _)
\* cipher.decrypt(ciphertext) in CBC mode for a whole number of blocks
CbcDecrypt(key, prev, ct) ==
    IF Len(ct) = 0 THEN <<>>
    ELSE LET c == Block(ct, 1)
         IN  XorSeq(AesDecBlock(key, c), prev) \o CbcDecrypt(key, c, Drop(ct, BlockSize))

\* Crypto.Util.Padding.pad(data, 16)
Pad(data) ==
    LET n == BlockSize - (Len(data) % BlockSize) IN data \o Repeat(n, n)

Ok(v) == [ok |-> TRUE, data |-> v, err |-> ""]
Err(e) == [ok |-> FALSE, data |-> None, err |-> e]

\* an unpad that returns nothing for no input
UnpadLenient(padded) ==
    LET n == Len(padded)
        k == padded[n]
    IN  IF n = 0 THEN Ok(<<>>)
        ELSE IF (n % BlockSize) /= 0 THEN Err("Input data is not padded")
        ELSE IF k < 1 \/ k > Min(BlockSize, n) THEN Err("Padding is incorrect.")
        ELSE IF LastN(padded, k) /= Repeat(k, k) THEN Err("PKCS#7 padding is incorrect.")
        ELSE Ok(Take(padded, n - k))

\* Crypto.Util.Padding.unpad(padded, 16): the data, or the ValueError text
Unpad(padded) ==
    LET n == Len(padded)
        k == padded[n]
    IN  IF n = 0 THEN Err("Zero-length input cannot be unpadded")
        ELSE IF (n % BlockSize) /= 0 THEN Err("Input data is not padded")
        ELSE IF k < 1 \/ k > Min(BlockSize, n) THEN Err("Padding is incorrect.")
        ELSE IF LastN(padded, k) /= Repeat(k, k) THEN Err("PKCS#7 padding is incorrect.")
        ELSE Ok(Take(padded, n - k))

\* WhatsappMedia.decrypt_media: the plaintext, or the text of the exception
\* raised by AES.new, cipher.decrypt or unpad
DecryptMedia(encryption_key, iv, ciphertext) ==
    IF Len(encryption_key) \notin AesKeyLens
    THEN Err("Incorrect AES key length (" \o ToString(Len(encryption_key)) \o " bytes)")
    ELSE IF Len(iv) /= BlockSize
    THEN Err("Incorrect IV length (it must be 16 bytes long)")
    ELSE IF (Len(ciphertext) % BlockSize) /= 0
    THEN Err("Data must be padded to 16 byte boundary in CBC mode")
    ELSE Unpad(CbcDecrypt(encryption_key, iv, ciphertext))

\* ------------------------------------------------------------------------
\* WhatsappMedia: the checks
\* ------------------------------------------------------------------------
\* the comparison shared by verify_enc_hash and verify_plaintext_hash:
\* direct match with the hex digest, else match after base64-decoding the
\* expected value; a failed decode is swallowed
HashMatches(content, expected_hash) ==
    LET calculated_hash == Hex(Sha256(content))
        decoded == B64Decode(expected_hash)
    IN  IF calculated_hash = expected_hash THEN TRUE
        ELSE IF decoded = DecodeError THEN FALSE
        ELSE calculated_hash = Hex(decoded)

\* a verify_enc_hash that lets a descriptor without encrypted_hash pass
VerifyEncHashOptional(self, cdn_file) ==
    self.encrypted_hash = None \/ HashMatches(cdn_file, self.encrypted_hash)

\* WhatsappMedia.verify_enc_hash
VerifyEncHash(self, cdn_file) == HashMatches(cdn_file, self.encrypted_hash)

\* a verify_plaintext_hash that debug_mode switches off
VerifyPlaintextHashUnlessDebug(self, decrypted_media) ==
    self.debug_mode \/ HashMatches(decrypted_media, self.plaintext_hash)

\* WhatsappMedia.verify_plaintext_hash
VerifyPlaintextHash(self, decrypted_media) ==
    HashMatches(decrypted_media, self.plaintext_hash)

\* a validate_hmac that only looks at the length of the tag
ValidateHmacLengthOnly(self, ciphertext, hmac10) == Len(hmac10) = TagLen

\* WhatsappMedia.validate_hmac
ValidateHmac(self, ciphertext, hmac10) ==
    Take(HmacSha256(self.hmac_key, self.iv \o ciphertext), TagLen) = hmac10

\* ------------------------------------------------------------------------
\* The environment: media sources, CDN blobs, descriptors, storage
\* ------------------------------------------------------------------------
SrcBytes == {104}
\* the original media: byte strings of up to MaxSrcLen bytes
Sources == UNION {[1..n -> SrcBytes] : n \in 0..MaxSrcLen}

\* key material of the descriptors
EncKey == Repeat(1, 32)
HmacKey == Repeat(2, 32)
Iv == Repeat(0, BlockSize)

\* the tag a producer appends to a ciphertext
TagOf(ct) == Take(HmacSha256(HmacKey, Iv \o ct), TagLen)

\* How the blob on the CDN was made from the source:
\*   good       padded, encrypted, tagged
\*   badtag     as good, one bit of the tag flipped
\*   badpad     the last block does not end in PKCS7 padding; tag is right
\*   unaligned  the ciphertext has lost its last byte; tag is right
\*   short      only the tag of the empty ciphertext (TagLen bytes in all)
Variants == {"good", "badtag", "badpad", "unaligned", "short", "tiny", "empty"}

BlobOf(src, variant) ==
    LET ct == CbcEncrypt(EncKey, Iv, Pad(src))
        ctBadPad == CbcEncrypt(EncKey, Iv,
                        src \o Repeat(0, BlockSize - (Len(src) % BlockSize)))
        ctCut == AllButLastN(ct, 1)
    IN  CASE variant = "good" -> ct \o TagOf(ct)
          [] variant = "badtag" -> ct \o [TagOf(ct) EXCEPT ![1] = Xor(@, 1)]
          [] variant = "badpad" -> ctBadPad \o TagOf(ctBadPad)
          [] variant = "unaligned" -> ctCut \o TagOf(ctCut)
          [] variant = "short" -> TagOf(<<>>)
          [] variant = "tiny" -> Take(TagOf(<<>>), 5)
          [] variant = "empty" -> <<>>

\* How a hash field of the descriptor relates to the content it describes
HashForms == {"hex", "b64", "wrong", "none"}
\* further forms: the base64 digest behind a "!" or in front of a newline,
\* the base64 of another digest, a text that is no base64
OtherHashForms == {"b64_junk", "b64_tail", "b64_wrong", "undecodable"}

HashField(content, form) ==
    CASE form = "hex" -> Hex(Sha256(content))
      [] form = "b64" -> B64Encode(Sha256(content))
      [] form = "wrong" -> Hex(Sha256(content \o <<0>>))
      [] form = "none" -> None
      [] form = "b64_junk" -> <<33>> \o B64Encode(Sha256(content))
      [] form = "b64_tail" -> B64Encode(Sha256(content)) \o <<10>>
      [] form = "b64_wrong" -> B64Encode(Sha256(content \o <<0>>))
      [] form = "undecodable" -> <<65>>

\* the hmac_key of the descriptor: the producer's, or another key
HmacKeyForms == {"right", "other"}
HmacKeyField(form) == IF form = "right" THEN HmacKey ELSE Repeat(3, 32)

\* A scenario: the source, how the blob was made, the form of the two hash
\* fields (eh: encrypted_hash, ph: plaintext_hash) and of the hmac_key (hk).
AllScenarios ==
    {sc \in [src : Sources, variant : Variants, eh : HashForms, ph : HashForms,
             hk : HmacKeyForms] :
        sc.variant \in {"short", "tiny", "empty"} => sc.src = <<>>}

\* The scenarios of single calls.  The plaintext hash only matters for blobs
\* that decrypt; a foreign hmac_key is tried on the otherwise sound blob.
Scenarios ==
    {sc \in AllScenarios :
        /\ sc.variant /= "good" => sc.ph = "hex"
        /\ sc.hk = "other" => sc.variant = "good" /\ sc.eh = "hex" /\ sc.ph = "hex"}

FileName == "a.jpg"
CdnUrl == "https://cdn.example/m1"

\* the media_data dictionary a caller passes for a scenario
MediaData(sc) ==
    [file_name |-> FileName,
     media_id |-> "m1",
     cdn_url |-> CdnUrl,
     encryption_metadata |->
        [encryption_key |-> B64Encode(EncKey),
         hmac_key |-> B64Encode(HmacKeyField(sc.hk)),
         iv |-> B64Encode(Iv),
         plaintext_hash |-> HashField(sc.src, sc.ph),
         encrypted_hash |-> HashField(BlobOf(sc.src, sc.variant), sc.eh)]]

\* HTTP responses of the CDN: status code and reason phrase
HttpStatuses == {200, 404}
HttpReason(status) ==
    CASE status = 404 -> "404 Client Error: Not Found"
      [] OTHER -> ToString(status)

\* Storage: every path the calls can touch, holding bytes or nothing
NoPath == "<None>"
RawPath(file_name) == file_name \o ".raw"
DecryptedPath(file_name) == file_name \o ".decrypted"
\* the output_path arguments: absent, a path of its own, the raw artifact's
OutputPaths == {NoPath, "out.bin", RawPath(FileName)}
Paths == {FileName, RawPath(FileName), DecryptedPath(FileName), "out.bin"}

Absent == <<-3>>
OldContent == <<111>>
Exists(fsw, path) == fsw[path] /= Absent

\* open(path, "wb") followed by f.write(data): done, or OSError at open
\* (nothing changes), or OSError at write (the file was truncated by open)
WriteOutcomes == {"ok", "open_error", "write_error"}

WriteFile(fsw, path, data, outcome) ==
    CASE outcome = "ok" ->
            [fs |-> [fsw EXCEPT ![path] = data], err |-> ""]
      [] outcome = "open_error" ->
            [fs |-> fsw, err |-> "[Errno 13] Permission denied: '" \o path \o "'"]
      [] outcome = "write_error" ->
            [fs |-> [fsw EXCEPT ![path] = <<>>],
             err |-> "[Errno 28] No space left on device"]

RemoveError(path) == "[Errno 13] Permission denied: '" \o path \o "'"

\* ------------------------------------------------------------------------
\* State
\* ------------------------------------------------------------------------
Insts == {1, 2}

VARIABLES
    self,   \* self[i]: the fields of WhatsappMedia instance i
    call,   \* call[i]: the call in progress on instance i: position and locals
    ret,    \* ret[i]: what the last call on instance i returned (or raised)
    fs,     \* fs[w]: the files of storage w
    fs0,    \* the files every storage held before the first call
    world,  \* world[i]: the storage instance i works on
    hist,   \* hist[i]: the stages the call on instance i went through
    scn,    \* scn[i]: the scenario instance i was constructed for
    enc,    \* the fields of the WhatsappEncryption instance
    ecall,  \* the last call on it: operation and what the caller passed
    eret,   \* what that call returned or raised
    elog    \* the calls made on it so far with their results, oldest first

\* the WhatsappEncryption instance and its last call
flowVars == <<enc, ecall, eret, elog>>

\* what no call on a WhatsappMedia instance changes
fixed == <<fs0, world, flowVars>>

\* what no call on the WhatsappEncryption instance changes
mediaVars == <<self, call, ret, fs, fs0, world, hist, scn>>

NoSelf ==
    [file_name |-> "", media_id |-> "", cdn_url |-> "",
     encryption_key |-> <<>>, hmac_key |-> <<>>, iv |-> <<>>,
     plaintext_hash |-> None, encrypted_hash |-> None,
     debug_mode |-> FALSE, keep_temp_files |-> FALSE]

NoRet == [status |-> "none", media |-> None, success |-> FALSE, message |-> ""]
\* a returned tuple; media is None in the two-element results
Returned(media, success, message) ==
    [status |-> "returned", media |-> media, success |-> success, message |-> message]
\* an exception that left the call
Raised(text) ==
    [status |-> "raised", media |-> None, success |-> FALSE, message |-> text]

NewCall ==
    [op |-> "none", pc |-> "new", arg |-> NoPath, output_path |-> NoPath,
     cdn_file |-> None, hmac10 |-> None, ciphertext |-> None,
     decrypted_media |-> None, temp_files_created |-> <<>>,
     exc |-> "", pm |-> NoRet, env |-> <<>>]

NoScenario ==
    [src |-> <<>>, variant |-> "none", eh |-> "none", ph |-> "none", hk |-> "none"]

\* ------------------------------------------------------------------------
\* WhatsappMedia.__init__ and the two switches
\* ------------------------------------------------------------------------
\* the fields __init__ sets from media_data
InitFields(media_data) ==
    LET encryption_metadata == media_data.encryption_metadata
    IN  [file_name |-> media_data.file_name,
         media_id |-> media_data.media_id,
         cdn_url |-> media_data.cdn_url,
         encryption_key |-> B64Decode(encryption_metadata.encryption_key),
         hmac_key |-> B64Decode(encryption_metadata.hmac_key),
         iv |-> B64Decode(encryption_metadata.iv),
         plaintext_hash |-> encryption_metadata.plaintext_hash,
         encrypted_hash |-> encryption_metadata.encrypted_hash,
         debug_mode |-> FALSE,
         keep_temp_files |-> FALSE]

Construct(i, sc) ==
    /\ call[i].pc = "new"
    /\ self' = [self EXCEPT ![i] = InitFields(MediaData(sc))]
    /\ scn' = [scn EXCEPT ![i] = sc]
    /\ call' = [call EXCEPT ![i].pc = "idle"]
    /\ UNCHANGED <<ret, fs, fixed, hist>>

\* the caller assigns debug_mode and keep_temp_files before its call
Configure(i, debug, keep) ==
    /\ call[i].pc = "idle"
    /\ call' = [call EXCEPT ![i].pc = "ready"]
    /\ self' = [self EXCEPT ![i].debug_mode = debug, ![i].keep_temp_files = keep]
    /\ UNCHANGED <<ret, fs, fixed, hist, scn>>

\* ------------------------------------------------------------------------
\* Helpers of the calls
\* ------------------------------------------------------------------------
Files(i) == fs[world[i]]
SetFiles(i, fsw) == fs' = [fs EXCEPT ![world[i]] = fsw]
Log(i, event) == hist' = [hist EXCEPT ![i] = Append(@, event)]

\* a download_from_cdn without raise_for_status
DownloadFromCdnAnyStatus(cdn_url, status, content) == Ok(content)

\* WhatsappMedia.download_from_cdn: requests.get and raise_for_status
DownloadFromCdn(cdn_url, status, content) ==
    IF status >= 400 THEN Err(HttpReason(status) \o " for url: " \o cdn_url)
    ELSE Ok(content)

\* what the CDN holds for instance i
CdnContent(i) == BlobOf(scn[i].src, scn[i].variant)

\* the loop "for file_path in temp_files_created: if exists: os.remove" of
\* process_media; failAt is the file whose os.remove raises (0: none does)
CleanupCreated(fsw, files, failAt) ==
    LET triggered == failAt > 0 /\ Exists(fsw, files[failAt])
        removed(path) ==
            \E k \in 1..Len(files) :
                files[k] = path /\ (~triggered \/ k < failAt)
    IN  [fs |-> [path \in DOMAIN fsw |-> IF removed(path) THEN Absent ELSE fsw[path]],
         err |-> IF triggered THEN RemoveError(files[failAt]) ELSE ""]

\* WhatsappMedia.cleanup_temp_files: both artifacts are removed when they
\* exist; a failing os.remove is swallowed (failing: the paths it fails on)
CleanupTempFiles(fsw, file_name, failing) ==
    [path \in DOMAIN fsw |->
        IF path \in {RawPath(file_name), DecryptedPath(file_name)} /\ path \notin failing
        THEN Absent ELSE fsw[path]]

TempPaths(file_name) == {RawPath(file_name), DecryptedPath(file_name)}

\* the environment's answer to a cleanup, as an entry of call[i].env
RemovalAnswer(file_name, failing) ==
    "remove"
        \o (IF RawPath(file_name) \in failing THEN " raw:denied" ELSE "")
        \o (IF DecryptedPath(file_name) \in failing THEN " decrypted:denied" ELSE "")

\* artifacts written whenever debug_mode is on
WantsArtifactsDebugOnly(self_i) == self_i.debug_mode

\* the condition under which process_media writes its two artifacts
WantsArtifacts(self_i) == self_i.debug_mode /\ self_i.keep_temp_files

\* process_media hands its result to its caller: the user, or save_media
PMReturn(i, c, r) ==
    IF c.op = "process_media" \/ r.status = "raised"
    THEN /\ call' = [call EXCEPT ![i] = [c EXCEPT !.pc = "done"]]
         /\ ret' = [ret EXCEPT ![i] = r]
    ELSE /\ call' = [call EXCEPT ![i] = [c EXCEPT !.pc = "sm_check", !.pm = r]]
         /\ UNCHANGED ret

\* ------------------------------------------------------------------------
\* Entry points
\* ------------------------------------------------------------------------
CallProcessMedia(i) ==
    /\ call[i].pc = "ready"
    /\ call' = [call EXCEPT ![i].op = "process_media", ![i].pc = "pm_download"]
    /\ UNCHANGED <<self, ret, fs, fixed, hist, scn>>

CallSaveMedia(i, output_path) ==
    /\ call[i].pc = "ready"
    /\ call' = [call EXCEPT ![i].op = "save_media", ![i].pc = "pm_download",
                            ![i].arg = output_path, ![i].output_path = output_path]
    /\ UNCHANGED <<self, ret, fs, fixed, hist, scn>>

CallBypassVerifications(i, output_path) ==
    /\ call[i].pc = "ready"
    /\ call' = [call EXCEPT ![i].op = "bypass_verifications", ![i].pc = "bv_download",
                            ![i].arg = output_path, ![i].output_path = output_path]
    /\ UNCHANGED <<self, ret, fs, fixed, hist, scn>>

\* ------------------------------------------------------------------------
\* WhatsappMedia.process_media, stage by stage
\* ------------------------------------------------------------------------
\* Step 1: cdn_file = self.download_from_cdn()
PM_Download(i) ==
    /\ call[i].pc = "pm_download"
    /\ \E status \in HttpStatuses :
        LET r == DownloadFromCdn(self[i].cdn_url, status, CdnContent(i))
            c == [call[i] EXCEPT !.env = Append(@, ToString(status))]
        IN  IF r.ok
            THEN /\ call' = [call EXCEPT ![i] =
                                [c EXCEPT !.cdn_file = r.data, !.pc = "pm_write_raw"]]
                 /\ Log(i, "download_ok")
            ELSE /\ call' = [call EXCEPT ![i] =
                                [c EXCEPT !.exc = r.err, !.pc = "pm_except"]]
                 /\ Log(i, "download_fail")
    /\ UNCHANGED <<self, ret, fs, fixed, scn>>

\* if self.debug_mode and self.keep_temp_files: write <file_name>.raw
PM_WriteRaw(i) ==
    /\ call[i].pc = "pm_write_raw"
    /\ IF WantsArtifacts(self[i])
       THEN \E outcome \in WriteOutcomes :
            LET raw_path == RawPath(self[i].file_name)
                w == WriteFile(Files(i), raw_path, call[i].cdn_file, outcome)
                c == [call[i] EXCEPT !.env = Append(@, outcome)]
            IN  /\ SetFiles(i, w.fs)
                /\ Log(i, "write_raw_" \o outcome)
                /\ IF w.err = ""
                   THEN call' = [call EXCEPT ![i] =
                            [c EXCEPT !.temp_files_created = Append(@, raw_path),
                                      !.pc = "pm_verify_enc"]]
                   ELSE call' = [call EXCEPT ![i] =
                            [c EXCEPT !.exc = w.err, !.pc = "pm_except"]]
       ELSE /\ call' = [call EXCEPT ![i].pc = "pm_verify_enc"]
            /\ UNCHANGED <<fs, hist>>
    /\ UNCHANGED <<self, ret, fixed, scn>>

\* Step 2: if not self.verify_enc_hash(cdn_file): return failure
PM_VerifyEncHash(i) ==
    /\ call[i].pc = "pm_verify_enc"
    /\ IF VerifyEncHash(self[i], call[i].cdn_file)
       THEN /\ call' = [call EXCEPT ![i].pc = "pm_validate_hmac"]
            /\ UNCHANGED ret
            /\ Log(i, "enc_hash_ok")
       ELSE /\ PMReturn(i, call[i],
                        Returned(None, FALSE, "Encrypted file hash verification failed"))
            /\ Log(i, "enc_hash_fail")
    /\ UNCHANGED <<self, fs, fixed, scn>>

\* the split, and Step 3: if not self.validate_hmac(ciphertext, hmac10)
PM_ValidateHmac(i) ==
    /\ call[i].pc = "pm_validate_hmac"
    /\ LET hmac10 == LastN(call[i].cdn_file, TagLen)
           ciphertext == AllButLastN(call[i].cdn_file, TagLen)
           c == [call[i] EXCEPT !.hmac10 = hmac10, !.ciphertext = ciphertext]
       IN  IF ValidateHmac(self[i], ciphertext, hmac10)
           THEN /\ call' = [call EXCEPT ![i] = [c EXCEPT !.pc = "pm_decrypt"]]
                /\ UNCHANGED ret
                /\ Log(i, "hmac_ok")
           ELSE /\ PMReturn(i, c, Returned(None, FALSE, "HMAC validation failed"))
                /\ Log(i, "hmac_fail")
    /\ UNCHANGED <<self, fs, fixed, scn>>

\* Step 4: decrypted_media = self.decrypt_media(ciphertext)
PM_Decrypt(i) ==
    /\ call[i].pc = "pm_decrypt"
    /\ LET d == DecryptMedia(self[i].encryption_key, self[i].iv, call[i].ciphertext)
       IN  IF d.ok
           THEN /\ call' = [call EXCEPT ![i].decrypted_media = d.data,
                                        ![i].pc = "pm_write_decrypted"]
                /\ Log(i, "decrypt_ok")
           ELSE /\ call' = [call EXCEPT ![i].exc = d.err, ![i].pc = "pm_except"]
                /\ Log(i, "decrypt_error")
    /\ UNCHANGED <<self, ret, fs, fixed, scn>>

\* if self.debug_mode and self.keep_temp_files: write <file_name>.decrypted
PM_WriteDecrypted(i) ==
    /\ call[i].pc = "pm_write_decrypted"
    /\ IF WantsArtifacts(self[i])
       THEN \E outcome \in WriteOutcomes :
            LET decrypted_path == DecryptedPath(self[i].file_name)
                w == WriteFile(Files(i), decrypted_path, call[i].decrypted_media, outcome)
                c == [call[i] EXCEPT !.env = Append(@, outcome)]
            IN  /\ SetFiles(i, w.fs)
                /\ Log(i, "write_decrypted_" \o outcome)
                /\ IF w.err = ""
                   THEN call' = [call EXCEPT ![i] =
                            [c EXCEPT !.temp_files_created = Append(@, decrypted_path),
                                      !.pc = "pm_verify_plaintext"]]
                   ELSE call' = [call EXCEPT ![i] =
                            [c EXCEPT !.exc = w.err, !.pc = "pm_except"]]
       ELSE /\ call' = [call EXCEPT ![i].pc = "pm_verify_plaintext"]
            /\ UNCHANGED <<fs, hist>>
    /\ UNCHANGED <<self, ret, fixed, scn>>

\* Step 5: if not self.verify_plaintext_hash(decrypted_media): clean up the
\* created files unless keep_temp_files, return failure; else return success
PM_VerifyPlaintextHash(i) ==
    /\ call[i].pc = "pm_verify_plaintext"
    /\ IF VerifyPlaintextHash(self[i], call[i].decrypted_media)
       THEN /\ PMReturn(i, call[i],
                    Returned(call[i].decrypted_media, TRUE,
                             "Media successfully decrypted and verified"))
            /\ Log(i, "plaintext_hash_ok")
            /\ UNCHANGED fs
       ELSE /\ Log(i, "plaintext_hash_fail")
            /\ IF ~self[i].keep_temp_files
               THEN \E failAt \in 0..Len(call[i].temp_files_created) :
                    LET cl == CleanupCreated(Files(i), call[i].temp_files_created, failAt)
                    IN  /\ SetFiles(i, cl.fs)
                        /\ IF cl.err = ""
                           THEN PMReturn(i, call[i],
                                    Returned(None, FALSE, "Plaintext hash verification failed"))
                           ELSE /\ call' = [call EXCEPT ![i].exc = cl.err,
                                                        ![i].pc = "pm_except"]
                                /\ UNCHANGED ret
               ELSE /\ PMReturn(i, call[i],
                            Returned(None, FALSE, "Plaintext hash verification failed"))
                    /\ UNCHANGED fs
    /\ UNCHANGED <<self, fixed, scn>>

\* except Exception as e: clean up the created files unless keep_temp_files,
\* return (None, False, "Error during processing: " + str(e)); an os.remove
\* that fails here leaves the call as an exception
PM_Except(i) ==
    /\ call[i].pc = "pm_except"
    /\ LET failure == Returned(None, FALSE, "Error during processing: " \o call[i].exc)
       IN  IF ~self[i].keep_temp_files
           THEN \E failAt \in 0..Len(call[i].temp_files_created) :
                LET cl == CleanupCreated(Files(i), call[i].temp_files_created, failAt)
                IN  /\ SetFiles(i, cl.fs)
                    /\ PMReturn(i, call[i], IF cl.err = "" THEN failure ELSE Raised(cl.err))
           ELSE /\ PMReturn(i, call[i], failure)
                /\ UNCHANGED fs
    /\ UNCHANGED <<self, fixed, hist, scn>>

\* ------------------------------------------------------------------------
\* WhatsappMedia.save_media, after its call of process_media
\* ------------------------------------------------------------------------
\* if not success: return False, message; the default output path
SM_Check(i) ==
    /\ call[i].pc = "sm_check"
    /\ IF ~call[i].pm.success
       THEN /\ ret' = [ret EXCEPT ![i] = Returned(None, FALSE, call[i].pm.message)]
            /\ call' = [call EXCEPT ![i].pc = "done"]
       ELSE IF call[i].pm.media = None
       THEN /\ ret' = [ret EXCEPT ![i] = Returned(None, FALSE, "No decrypted media to save")]
            /\ call' = [call EXCEPT ![i].pc = "done"]
       ELSE /\ call' = [call EXCEPT ![i].pc = "sm_write",
                            ![i].output_path =
                                IF @ = NoPath THEN self[i].file_name ELSE @]
            /\ UNCHANGED ret
    /\ UNCHANGED <<self, fs, fixed, hist, scn>>

\* with open(output_path, "wb") as f: f.write(decrypted_media)
SM_Write(i) ==
    /\ call[i].pc = "sm_write"
    /\ \E outcome \in WriteOutcomes :
        LET w == WriteFile(Files(i), call[i].output_path, call[i].pm.media, outcome)
            c == [call[i] EXCEPT !.env = Append(@, outcome)]
        IN  /\ SetFiles(i, w.fs)
            /\ Log(i, "write_output_" \o outcome)
            /\ IF w.err = ""
               THEN /\ call' = [call EXCEPT ![i] = [c EXCEPT !.pc = "sm_cleanup"]]
                    /\ UNCHANGED ret
               ELSE /\ call' = [call EXCEPT ![i] = [c EXCEPT !.pc = "done"]]
                    /\ ret' = [ret EXCEPT ![i] =
                            Returned(None, FALSE, "Failed to save media: " \o w.err)]
    /\ UNCHANGED <<self, fixed, scn>>

\* self.cleanup_temp_files(); return True, output_path
SM_Cleanup(i) ==
    /\ call[i].pc = "sm_cleanup"
    /\ \E failing \in SUBSET TempPaths(self[i].file_name) :
        /\ \A path \in failing : Exists(Files(i), path)
        /\ SetFiles(i, CleanupTempFiles(Files(i), self[i].file_name, failing))
    /\ call' = [call EXCEPT ![i].pc = "done"]
    /\ ret' = [ret EXCEPT ![i] = Returned(None, TRUE, call[i].output_path)]
    /\ Log(i, "cleanup")
    /\ UNCHANGED <<self, fixed, scn>>

\* ------------------------------------------------------------------------
\* WhatsappMedia.bypass_verifications
\* ------------------------------------------------------------------------
BV_Failure(text) == Returned(None, FALSE, "Error during processing: " \o text)

\* cdn_file = self.download_from_cdn()
BV_Download(i) ==
    /\ call[i].pc = "bv_download"
    /\ \E status \in HttpStatuses :
        LET r == DownloadFromCdn(self[i].cdn_url, status, CdnContent(i))
            c == [call[i] EXCEPT !.env = Append(@, ToString(status))]
        IN  IF r.ok
            THEN /\ call' = [call EXCEPT ![i] =
                                [c EXCEPT !.cdn_file = r.data, !.pc = "bv_decrypt"]]
                 /\ UNCHANGED ret
                 /\ Log(i, "download_ok")
            ELSE /\ call' = [call EXCEPT ![i] = [c EXCEPT !.pc = "done"]]
                 /\ ret' = [ret EXCEPT ![i] = BV_Failure(r.err)]
                 /\ Log(i, "download_fail")
    /\ UNCHANGED <<self, fs, fixed, scn>>

\* a bypass that still authenticates the ciphertext before decrypting it
BypassDecryptAuthenticated(self_i, cdn_file) ==
    IF ValidateHmac(self_i, AllButLastN(cdn_file, TagLen), LastN(cdn_file, TagLen))
    THEN DecryptMedia(self_i.encryption_key, self_i.iv, AllButLastN(cdn_file, TagLen))
    ELSE Err("HMAC validation failed")

\* bypass_verifications: the tag is split off and dropped, the rest decrypted
BypassDecrypt(self_i, cdn_file) ==
    DecryptMedia(self_i.encryption_key, self_i.iv, AllButLastN(cdn_file, TagLen))

\* the split and decrypted_media = self.decrypt_media(ciphertext)
BV_Decrypt(i) ==
    /\ call[i].pc = "bv_decrypt"
    /\ LET hmac10 == LastN(call[i].cdn_file, TagLen)
           ciphertext == AllButLastN(call[i].cdn_file, TagLen)
           d == BypassDecrypt(self[i], call[i].cdn_file)
           c == [call[i] EXCEPT !.hmac10 = hmac10, !.ciphertext = ciphertext]
       IN  IF d.ok
           THEN /\ call' = [call EXCEPT ![i] =
                        [c EXCEPT !.decrypted_media = d.data, !.pc = "bv_write",
                                  !.output_path =
                                      IF @ = NoPath THEN self[i].file_name ELSE @]]
                /\ UNCHANGED ret
                /\ Log(i, "decrypt_ok")
           ELSE /\ call' = [call EXCEPT ![i] = [c EXCEPT !.pc = "done"]]
                /\ ret' = [ret EXCEPT ![i] = BV_Failure(d.err)]
                /\ Log(i, "decrypt_error")
    /\ UNCHANGED <<self, fs, fixed, scn>>

\* with open(output_path, "wb") as f: f.write(decrypted_media)
BV_Write(i) ==
    /\ call[i].pc = "bv_write"
    /\ \E outcome \in WriteOutcomes :
        LET w == WriteFile(Files(i), call[i].output_path, call[i].decrypted_media, outcome)
            c == [call[i] EXCEPT !.env = Append(@, outcome)]
        IN  /\ SetFiles(i, w.fs)
            /\ Log(i, "write_output_" \o outcome)
            /\ IF w.err = ""
               THEN /\ call' = [call EXCEPT ![i] = [c EXCEPT !.pc = "bv_cleanup"]]
                    /\ UNCHANGED ret
               ELSE /\ call' = [call EXCEPT ![i] = [c EXCEPT !.pc = "done"]]
                    /\ ret' = [ret EXCEPT ![i] = BV_Failure(w.err)]
    /\ UNCHANGED <<self, fixed, scn>>

\* self.cleanup_temp_files(); return True, "Media saved to ..."
BV_Cleanup(i) ==
    /\ call[i].pc = "bv_cleanup"
    /\ \E failing \in SUBSET TempPaths(self[i].file_name) :
        /\ \A path \in failing : Exists(Files(i), path)
        /\ SetFiles(i, CleanupTempFiles(Files(i), self[i].file_name, failing))
        /\ call' = [call EXCEPT ![i].pc = "done",
                                ![i].env = Append(@, RemovalAnswer(self[i].file_name, failing))]
    /\ ret' = [ret EXCEPT ![i] = Returned(None, TRUE,
                    "Media saved to " \o call[i].output_path \o " (bypassed verification)")]
    /\ Log(i, "cleanup")
    /\ UNCHANGED <<self, fixed, scn>>

\* ------------------------------------------------------------------------
\* WhatsappEncryption: state and results
\* ------------------------------------------------------------------------
NoEnc == [private_key_path |-> "", PRIVATE_KEY |-> 0]
NoECall == [op |-> "none", request |-> <<>>, args |-> <<>>]
ENoRet ==
    [status |-> "none", exc |-> "", decrypted_data |-> None,
     aes_key |-> None, iv |-> None, text |-> None]
\* return decrypted_data, aes_key, iv
EReturned3(decrypted_data, aes_key, iv) ==
    [status |-> "returned", exc |-> "", decrypted_data |-> decrypted_data,
     aes_key |-> aes_key, iv |-> iv, text |-> None]
\* return the base64 text
EReturnedText(text) ==
    [status |-> "returned", exc |-> "", decrypted_data |-> None,
     aes_key |-> None, iv |-> None, text |-> text]
\* the call raised: nothing is returned
ERaised(exc) ==
    [status |-> "raised", exc |-> exc, decrypted_data |-> None,
     aes_key |-> None, iv |-> None, text |-> None]

FlowIdle == enc = NoEnc /\ ecall = NoECall /\ eret = ENoRet /\ elog = <<>>

\* ------------------------------------------------------------------------
\* The media specification: one instance, one call, any scenario
\* ------------------------------------------------------------------------
Storages == {[path \in Paths |-> Absent], [path \in Paths |-> OldContent]}

\* no instance constructed yet; every storage starts as fs0
MediaInit(insts) ==
    /\ self = [i \in insts |-> NoSelf]
    /\ call = [i \in insts |-> NewCall]
    /\ ret = [i \in insts |-> NoRet]
    /\ hist = [i \in insts |-> <<>>]
    /\ scn = [i \in insts |-> NoScenario]
    /\ world = [i \in insts |-> i]
    /\ fs0 \in Storages
    /\ fs = [w \in insts |-> fs0]

Init == MediaInit({1}) /\ FlowIdle

VerifiedStep(i) ==
    \/ PM_Download(i)
    \/ PM_WriteRaw(i)
    \/ PM_VerifyEncHash(i)
    \/ PM_ValidateHmac(i)
    \/ PM_Decrypt(i)
    \/ PM_WriteDecrypted(i)
    \/ PM_VerifyPlaintextHash(i)
    \/ PM_Except(i)
    \/ SM_Check(i)
    \/ SM_Write(i)
    \/ SM_Cleanup(i)

BypassStep(i) ==
    \/ BV_Download(i)
    \/ BV_Decrypt(i)
    \/ BV_Write(i)
    \/ BV_Cleanup(i)

Next ==
    \/ \E sc \in Scenarios : Construct(1, sc)
    \/ \E debug, keep \in BOOLEAN : Configure(1, debug, keep)
    \/ CallProcessMedia(1)
    \/ \E output_path \in OutputPaths : CallSaveMedia(1, output_path)
    \/ \E output_path \in OutputPaths : CallBypassVerifications(1, output_path)
    \/ VerifiedStep(1)
    \/ BypassStep(1)

vars == <<self, call, ret, fs, fs0, world, hist, scn, enc, ecall, eret, elog>>

Spec == Init /\ [][Next]_vars

\* ------------------------------------------------------------------------
\* The twin specification: instance 1 makes one call on a descriptor whose
\* fields are all sound; when that call was bypass_verifications, instance 2
\* is built on a storage of its own for the same URL, key, IV, file name and
\* ciphertext, with any encrypted_hash, plaintext_hash, hmac_key and tag,
\* and makes the same call while the environment answers it as it answered
\* instance 1.
\* ------------------------------------------------------------------------
SoundScenarios ==
    {sc \in AllScenarios : sc.eh = "hex" /\ sc.ph = "hex" /\ sc.hk = "right"}

\* the two blobs differ at most in their last TagLen bytes
SameCiphertext(sc1, sc2) ==
    /\ sc1.src = sc2.src
    /\ \/ sc1.variant = sc2.variant
       \/ {sc1.variant, sc2.variant} = {"good", "badtag"}

TwinScenarios(sc1) ==
    {sc2 \in AllScenarios :
        /\ SameCiphertext(sc1, sc2)
        /\ sc2.eh \in {"hex", "none"}
        /\ sc2.ph \in {"hex", "wrong"}}

IsPrefix(s, t) == Len(s) <= Len(t) /\ s = SubSeq(t, 1, Len(s))

TwinReady == call[1].pc = "done" /\ call[1].op = "bypass_verifications"

TwinInit == MediaInit({1, 2}) /\ FlowIdle

TwinNext ==
    \/ \E sc \in SoundScenarios : Construct(1, sc)
    \/ Configure(1, FALSE, FALSE)
    \/ CallProcessMedia(1)
    \/ \E output_path \in OutputPaths : CallSaveMedia(1, output_path)
    \/ \E output_path \in OutputPaths : CallBypassVerifications(1, output_path)
    \/ VerifiedStep(1)
    \/ BypassStep(1)
    \/ TwinReady /\ \E sc \in TwinScenarios(scn[1]) : Construct(2, sc)
    \/ Configure(2, TRUE, TRUE)
    \/ CallBypassVerifications(2, call[1].arg)
    \/ BypassStep(2) /\ IsPrefix(call'[2].env, call[1].env)

TwinSpec == TwinInit /\ [][TwinNext]_vars

\* ------------------------------------------------------------------------
\* The hash specification: one verified call on a sound blob whose
\* descriptor carries each hash in any form; the environment answers every
\* download, write and removal with success
\* ------------------------------------------------------------------------
\* the environment answered every download, write and removal with success
Faultless(env) ==
    \A k \in 1..Len(env) : env[k] \in {"200", "ok", RemovalAnswer(FileName, {})}

HashScenarios ==
    [src : {<<104>>}, variant : {"good"}, eh : HashForms \cup OtherHashForms,
     ph : HashForms \cup OtherHashForms, hk : {"right"}]

HashNext ==
    \/ \E sc \in HashScenarios : Construct(1, sc)
    \/ \E debug, keep \in BOOLEAN : Configure(1, debug, keep)
    \/ CallProcessMedia(1)
    \/ CallSaveMedia(1, NoPath)
    \/ VerifiedStep(1) /\ Faultless(call'[1].env)

HashSpec == Init /\ [][HashNext]_vars

\* ------------------------------------------------------------------------
\* The shared specification: instances 1 and 2 work in one directory
\* (storage 1) and their calls interleave stage by stage; both descriptors
\* carry the same file_name and different media.  The environment answers
\* every download, write and removal with success.  When both calls are
\* over, instance 3 is built as instance 1 was, on a storage of its own, and
\* makes the call of instance 1 alone.
\* ------------------------------------------------------------------------
SharedScenarios(i) ==
    {sc \in SoundScenarios :
        IF i = 1 THEN sc.variant = "good" /\ sc.src = <<104>>
        ELSE sc.variant \in {"good", "badpad"} /\ sc.src = <<>>}

SharedOutputPaths(i) == IF i = 1 THEN {NoPath, "out.bin"} ELSE {NoPath}

SharedInit ==
    /\ self = [i \in {1, 2, 3} |-> NoSelf]
    /\ call = [i \in {1, 2, 3} |-> NewCall]
    /\ ret = [i \in {1, 2, 3} |-> NoRet]
    /\ hist = [i \in {1, 2, 3} |-> <<>>]
    /\ scn = [i \in {1, 2, 3} |-> NoScenario]
    /\ world = [i \in {1, 2, 3} |-> IF i = 3 THEN 3 ELSE 1]
    /\ fs0 = [path \in Paths |-> Absent]
    /\ fs = [w \in {1, 3} |-> fs0]
    /\ FlowIdle

SharedRun(i) ==
    \/ \E sc \in SharedScenarios(i) : Construct(i, sc)
    \/ \E keep \in BOOLEAN : Configure(i, keep, keep)
    \/ CallProcessMedia(i)
    \/ \E output_path \in SharedOutputPaths(i) : CallSaveMedia(i, output_path)
    \/ \E output_path \in SharedOutputPaths(i) : CallBypassVerifications(i, output_path)
    \/ VerifiedStep(i) /\ Faultless(call'[i].env)
    \/ BypassStep(i) /\ Faultless(call'[i].env)

BothOver == call[1].pc = "done" /\ call[2].pc = "done"

AloneRun ==
    \/ BothOver /\ Construct(3, scn[1])
    \/ Configure(3, self[1].debug_mode, self[1].keep_temp_files)
    \/ call[1].op = "process_media" /\ CallProcessMedia(3)
    \/ call[1].op = "save_media" /\ CallSaveMedia(3, call[1].arg)
    \/ call[1].op = "bypass_verifications" /\ CallBypassVerifications(3, call[1].arg)
    \/ VerifiedStep(3) /\ Faultless(call'[3].env)
    \/ BypassStep(3) /\ Faultless(call'[3].env)

SharedNext == SharedRun(1) \/ SharedRun(2) \/ AloneRun

SharedSpec == SharedInit /\ [][SharedNext]_vars

\* ------------------------------------------------------------------------
\* WhatsappEncryption: stand-ins for RSA-OAEP, AES-GCM and json
\* ------------------------------------------------------------------------
\* the PEM files: path -> the key pair in it (0: no such file)
KeyFileOf(private_key_path) ==
    CASE private_key_path = "private.pem" -> 7
      [] private_key_path = "other.pem" -> 9
      [] OTHER -> 0

\* the client's side: the AES key wrapped for a key pair
OaepEncrypt(keypair, secret) ==
    <<keypair>> \o [i \in 1..Len(secret) |-> (secret[i] + keypair) % 256]
        \o <<(Absorb(secret) + keypair) % 256>>

\* PRIVATE_KEY.decrypt(ciphertext, OAEP(...)): the secret or ValueError
OaepDecrypt(keypair, ciphertext) ==
    LET n == Len(ciphertext)
        secret == [i \in 1..(n - 2) |-> (ciphertext[i + 1] + 256 - keypair) % 256]
    IN  IF n < 2 THEN Err("Decryption failed")
        ELSE IF ciphertext[1] /= keypair THEN Err("Decryption failed")
        ELSE IF ciphertext[n] /= (Absorb(secret) + keypair) % 256
        THEN Err("Decryption failed")
        ELSE Ok(secret)

\* AES-GCM: counter-mode keystream and authentication tag
GcmCrypt(key, iv, data) ==
    [i \in 1..Len(data) |-> Xor(data[i], Absorb(key \o iv \o <<i>>) % 256)]

GcmTag(key, iv, ciphertext) ==
    Take(HmacSha256(key, <<Len(iv)>> \o iv \o ciphertext), GcmTagLen)

\* a finalize() that compares only the first 12 bytes of the tag
GcmTagOkTruncated(key, iv, ciphertext, tag) ==
    Take(GcmTag(key, iv, ciphertext), 12) = Take(tag, 12)

\* decryptor.finalize(): does the tag verify
GcmTagOk(key, iv, ciphertext, tag) == GcmTag(key, iv, ciphertext) = tag

\* what Cipher(algorithms.AES(key), modes.GCM(iv, tag)) rejects: "" if nothing
GcmParamsError(key, iv, tag) ==
    IF Len(key) \notin AesKeyLens THEN "Invalid key size for AES."
    ELSE IF Len(iv) < 8 \/ Len(iv) > 128
    THEN "initialization_vector must be between 8 and 128 bytes"
    ELSE IF tag /= None /\ Len(tag) < GcmTagLen
    THEN "Authentication tag must be 16 bytes or longer."
    ELSE ""

\* JSON objects: key, value, key, value, ...; a key is one letter and a
\* value one digit
RECURSIVE JsonMembers(_, _)
JsonMembers(obj, sep) ==
    IF Len(obj) = 0 THEN <<>>
    ELSE <<34, obj[1], 34, 58>> \o sep[2] \o <<48 + obj[2]>>
         \o (IF Len(obj) > 2 THEN <<44>> \o sep[1] ELSE <<>>)
         \o JsonMembers(SubSeq(obj, 3, Len(obj)), sep)

\* json.dumps(obj).encode("utf-8"): separators ", " and ": "
JsonDumps(obj) == <<123>> \o JsonMembers(obj, <<<<32>>, <<32>>>>) \o <<125>>
\* the same object without the spaces
JsonCompact(obj) == <<123>> \o JsonMembers(obj, <<<<>>, <<>>>>) \o <<125>>

JsonObjects == {<<>>, <<97, 1>>, <<97, 1, 98, 2>>}

JsonError == <<-4>>
\* json.loads(data.decode("utf-8")) over the objects above
JsonLoads(data) ==
    IF \E obj \in JsonObjects : data \in {JsonDumps(obj), JsonCompact(obj)}
    THEN CHOOSE obj \in JsonObjects : data \in {JsonDumps(obj), JsonCompact(obj)}
    ELSE JsonError

\* ------------------------------------------------------------------------
\* WhatsappEncryption.decrypt_request and encrypt_response
\* ------------------------------------------------------------------------
IsUtf8(data) == \A k \in 1..Len(data) : data[k] < 128

DecryptRequest(PRIVATE_KEY, encrypted_flow_data_b64, encrypted_aes_key_b64, initial_vector_b64) ==
    LET flow_data == B64Decode(encrypted_flow_data_b64)
        iv == B64Decode(initial_vector_b64)
        encrypted_aes_key == B64Decode(encrypted_aes_key_b64)
        unwrapped == OaepDecrypt(PRIVATE_KEY, encrypted_aes_key)
        aes_key == unwrapped.data
        encrypted_flow_data_body == AllButLastN(flow_data, GcmTagLen)
        encrypted_flow_data_tag == LastN(flow_data, GcmTagLen)
        \* decryptor.update(body): computed before finalize() checks the tag
        updated == GcmCrypt(aes_key, iv, encrypted_flow_data_body)
        decrypted_data == JsonLoads(updated)
    IN  IF flow_data = DecodeError \/ iv = DecodeError \/ encrypted_aes_key = DecodeError
        THEN ERaised("binascii.Error")
        ELSE IF ~unwrapped.ok THEN ERaised("ValueError")
        ELSE IF GcmParamsError(aes_key, iv, encrypted_flow_data_tag) /= ""
        THEN ERaised("ValueError")
        ELSE IF ~GcmTagOk(aes_key, iv, encrypted_flow_data_body, encrypted_flow_data_tag)
        THEN ERaised("InvalidTag")
        ELSE IF ~IsUtf8(updated) THEN ERaised("UnicodeDecodeError")
        ELSE IF decrypted_data = JsonError THEN ERaised("JSONDecodeError")
        ELSE EReturned3(decrypted_data, aes_key, iv)

\* an encrypt_response that encrypts under the IV it is given
FlippedIvKept(iv) == iv

\* flipped_iv: every byte of iv XOR 0xFF
FlippedIv(iv) == [k \in 1..Len(iv) |-> Xor(iv[k], 255)]

\* an encrypt_response that encrypts under the IV of the request that
\* decrypt_request returned last, when there is one
EncryptResponseSessionIv(response, aes_key, iv) ==
    LET session_iv == IF ecall.op = "decrypt_request" /\ eret.status = "returned"
                      THEN eret.iv ELSE iv
        flipped_iv == FlippedIv(session_iv)
        encrypted_data == GcmCrypt(aes_key, flipped_iv, JsonDumps(response))
    IN  IF GcmParamsError(aes_key, flipped_iv, None) /= "" THEN ERaised("ValueError")
        ELSE EReturnedText(
                B64Encode(encrypted_data \o GcmTag(aes_key, flipped_iv, encrypted_data)))

\* an encrypt_response that puts the tag in front of the ciphertext
EncryptResponseTagFirst(response, aes_key, iv) ==
    LET flipped_iv == FlippedIv(iv)
        encrypted_data == GcmCrypt(aes_key, flipped_iv, JsonDumps(response))
    IN  IF GcmParamsError(aes_key, flipped_iv, None) /= "" THEN ERaised("ValueError")
        ELSE EReturnedText(
                B64Encode(GcmTag(aes_key, flipped_iv, encrypted_data) \o encrypted_data))

EncryptResponse(response, aes_key, iv) ==
    LET flipped_iv == FlippedIv(iv)
        encrypted_data == GcmCrypt(aes_key, flipped_iv, JsonDumps(response))
    IN  IF GcmParamsError(aes_key, flipped_iv, None) /= "" THEN ERaised("ValueError")
        ELSE EReturnedText(
                B64Encode(encrypted_data \o GcmTag(aes_key, flipped_iv, encrypted_data)))

\* ------------------------------------------------------------------------
\* The flow environment: what a client sends
\* ------------------------------------------------------------------------
SessionKeys == {Repeat(5, 16), Repeat(6, 32)}
SessionIvs == {Repeat(0, 16), Repeat(9, 12)}
ClientKeyPair == 7

\* what a caller hands to encrypt_response: the keys and IVs of requests,
\* and a key and IVs that no request decrypted to
ResponseKeys == SessionKeys \cup {Repeat(5, 5)}
ResponseIvs ==
    SessionIvs \cup {Repeat(0, 4), Repeat(255, 8), <<0, 255, 128, 127, 1, 254, 85, 170>>}

\* the bitwise complement of an IV, byte by byte: the IV a client expects
\* the response under
Complement(V) == [k \in 1..Len(V) |-> 255 - V[k]]

\* a sound envelope: ciphertext followed by its tag
Envelope(obj_bytes, key, iv) ==
    LET ct == GcmCrypt(key, iv, obj_bytes) IN ct \o GcmTag(key, iv, ct)

FlipBit(data, pos, bit) ==
    LET p == 2 ^ bit
        b == data[pos]
    IN  [data EXCEPT ![pos] = IF ((b \div p) % 2) = 1 THEN b - p ELSE b + p]

\* How a request departs from a sound one:
\*   none      not at all
\*   flip      one bit of the envelope is flipped (at, bit): body or tag
\*   iv        another IV is supplied than the one used to encrypt
\*   otherkey  the AES key is wrapped for another key pair
\*   short     the envelope is cut to 5 bytes
\*   badb64    the envelope field is not base64
\*   badjson   the plaintext is not JSON, the envelope sound
Tampers ==
    {[kind |-> k, at |-> 0, bit |-> 0] :
        k \in {"none", "iv", "otherkey", "short", "badb64", "badjson"}}
    \cup {[kind |-> "flip", at |-> a, bit |-> b] : a \in 1..(GcmTagLen + 2), b \in 0..7}

FlowScenarios == [obj : JsonObjects, key : SessionKeys, iv : SessionIvs, tamper : Tampers]

\* the key pair the client wraps the AES key for
WrappedFor(sc) == IF sc.tamper.kind = "otherkey" THEN 9 ELSE ClientKeyPair

\* position of a flip counted from the end of the envelope, so that
\* 1..GcmTagLen are the tag and the positions beyond are the body
RequestOf(sc) ==
    LET plain == IF sc.tamper.kind = "badjson" THEN <<123>> ELSE JsonDumps(sc.obj)
        sound == Envelope(plain, sc.key, sc.iv)
        sent == CASE sc.tamper.kind = "flip" ->
                        FlipBit(sound, Len(sound) + 1 - sc.tamper.at, sc.tamper.bit)
                  [] sc.tamper.kind = "short" -> Take(sound, 5)
                  [] OTHER -> sound
    IN  [encrypted_flow_data |->
            IF sc.tamper.kind = "badb64" THEN <<65>> ELSE B64Encode(sent),
         encrypted_aes_key |->
            B64Encode(OaepEncrypt(WrappedFor(sc), sc.key)),
         initial_vector |->
            B64Encode(IF sc.tamper.kind = "iv" THEN Repeat(1, Len(sc.iv)) ELSE sc.iv)]

\* ------------------------------------------------------------------------
\* The flow specification
\* ------------------------------------------------------------------------
\* WhatsappEncryption.__init__ / _load_private_key
FlowConstruct(private_key_path) ==
    /\ enc = NoEnc
    /\ KeyFileOf(private_key_path) /= 0
    /\ enc' = [private_key_path |-> private_key_path,
               PRIVATE_KEY |-> KeyFileOf(private_key_path)]
    /\ UNCHANGED <<ecall, eret, elog, mediaVars>>

\* a call of decrypt_request: request says how the client built the
\* arguments, args are the three texts passed
DecryptRequestCall(sc, args) ==
    /\ enc /= NoEnc
    /\ ecall' = [op |-> "decrypt_request", request |-> <<sc>>, args |-> args]
    /\ eret' = DecryptRequest(enc.PRIVATE_KEY, args[1], args[2], args[3])
    /\ elog' = Append(elog, [call |-> ecall', ret |-> eret'])
    /\ UNCHANGED <<enc, mediaVars>>

FlowDecryptRequest(sc) ==
    LET request == RequestOf(sc)
    IN  DecryptRequestCall(sc, <<request.encrypted_flow_data, request.encrypted_aes_key,
                                 request.initial_vector>>)

FlowEncryptResponse(response, aes_key, iv) ==
    /\ enc /= NoEnc
    /\ ecall' = [op |-> "encrypt_response", request |-> <<response, aes_key, iv>>,
                 args |-> <<response, aes_key, iv>>]
    /\ eret' = EncryptResponse(response, aes_key, iv)
    /\ elog' = Append(elog, [call |-> ecall', ret |-> eret'])
    /\ UNCHANGED <<enc, mediaVars>>

FlowInit == MediaInit({}) /\ fs0 = [path \in Paths |-> Absent] /\ FlowIdle

\* one call on each constructed instance, with any request
FlowNext ==
    \/ \E private_key_path \in {"private.pem", "other.pem"} :
            FlowConstruct(private_key_path)
    \/ \E sc \in FlowScenarios : elog = <<>> /\ FlowDecryptRequest(sc)
    \/ \E response \in JsonObjects, aes_key \in ResponseKeys, iv \in ResponseIvs :
            elog = <<>> /\ FlowEncryptResponse(response, aes_key, iv)

FlowSpec == FlowInit /\ [][FlowNext]_vars

\* ------------------------------------------------------------------------
\* The exchange specification: up to MaxCalls calls in any order on one
\* instance, from a few requests and responses; the envelope that
\* encrypt_response returned may be handed to decrypt_request
\* ------------------------------------------------------------------------
MaxCalls == 2

ExchangeScenarios ==
    {sc \in FlowScenarios :
        /\ sc.obj = <<97, 1>>
        /\ sc.key = Repeat(5, 16)
        /\ sc.iv = Repeat(9, 12)
        /\ \/ sc.tamper.kind \in {"none", "otherkey", "badjson"}
           \/ sc.tamper.kind = "flip" /\ sc.tamper.at = 1 /\ sc.tamper.bit = 0}
ExchangeResponses == {<<>>, <<97, 1, 98, 2>>}
ExchangeKeys == {Repeat(6, 32), Repeat(5, 5)}
ExchangeIvs == {Repeat(9, 12), <<0, 255, 128, 127, 1, 254, 85, 170>>}

\* the client takes the envelope the last encrypt_response returned and
\* sends it back with the same key, wrapped for the instance's key pair,
\* and the complement of the IV
ReturnEnvelope ==
    /\ ecall.op = "encrypt_response"
    /\ eret.status = "returned"
    /\ DecryptRequestCall(
            [obj |-> ecall.args[1], key |-> ecall.args[2],
             iv |-> Complement(ecall.args[3]),
             tamper |-> [kind |-> IF enc.PRIVATE_KEY = ClientKeyPair
                                  THEN "none" ELSE "otherkey",
                         at |-> 0, bit |-> 0]],
            <<eret.text, B64Encode(OaepEncrypt(enc.PRIVATE_KEY, ecall.args[2])),
              B64Encode(Complement(ecall.args[3]))>>)

ExchangeNext ==
    \/ \E private_key_path \in {"private.pem", "other.pem"} :
            FlowConstruct(private_key_path)
    \/ \E sc \in ExchangeScenarios : Len(elog) < MaxCalls /\ FlowDecryptRequest(sc)
    \/ \E response \in ExchangeResponses, aes_key \in ExchangeKeys, iv \in ExchangeIvs :
            Len(elog) < MaxCalls /\ FlowEncryptResponse(response, aes_key, iv)
    \/ Len(elog) < MaxCalls /\ ReturnEnvelope

ExchangeSpec == FlowInit /\ [][ExchangeNext]_vars

\* ------------------------------------------------------------------------
\* Vocabulary of the properties
\* ------------------------------------------------------------------------
Has(i, event) == \E k \in 1..Len(hist[i]) : hist[i][k] = event
Done(i) == call[i].pc = "done"
\* the call runs the verified pipeline
Verified(i) == call[i].op \in {"process_media", "save_media"}
\* what process_media returned in this call (to the user or to save_media)
PMResult(i) == IF call[i].op = "process_media" THEN ret[i] ELSE call[i].pm
PMReturned(i) == Verified(i) /\ PMResult(i).status = "returned"
DecryptAttempted(i) == Has(i, "decrypt_ok") \/ Has(i, "decrypt_error")
DownloadSucceeded(i) == Len(call[i].env) >= 1 /\ call[i].env[1] = "200"
DownloadRefused(i) == Len(call[i].env) >= 1 /\ call[i].env[1] /= "200"
RawWriteFault(i) == Has(i, "write_raw_open_error") \/ Has(i, "write_raw_write_error")
DecryptedWriteFault(i) ==
    Has(i, "write_decrypted_open_error") \/ Has(i, "write_decrypted_write_error")

\* What is true of the scenario, whatever the code computes
EncHashGenuine(sc) == sc.eh \in {"hex", "b64"}
TagGenuine(sc) == sc.variant \notin {"badtag", "tiny", "empty"} /\ sc.hk = "right"
Decryptable(sc) == sc.variant \in {"good", "badtag"}
PlainHashGenuine(sc) == sc.ph \in {"hex", "b64"}

Failure(message) == Returned(None, FALSE, message)

DecryptionFaultTexts ==
    {"Padding is incorrect.", "PKCS#7 padding is incorrect.",
     "Zero-length input cannot be unpadded", "Input data is not padded",
     "Data must be padded to 16 byte boundary in CBC mode"}
StorageFaultTexts ==
    {WriteFile(fs0, path, <<>>, outcome).err :
        path \in Paths, outcome \in WriteOutcomes \ {"ok"}}

\* ------------------------------------------------------------------------
\* C1: in a run of the verified pipeline decrypt_media is called only after
\* verify_enc_hash and then validate_hmac passed on the blob of that run,
\* and the blob then really carries the expected hash and a right tag; a run
\* in which either check failed attempts no decryption and ends in Failure.
\* ------------------------------------------------------------------------
AuthenticateThenDecrypt ==
    Verified(1) =>
        /\ \A k \in 1..Len(hist[1]) :
              hist[1][k] \in {"decrypt_ok", "decrypt_error"} =>
                /\ \E j1, j2 \in 1..Len(hist[1]) :
                      /\ j1 < j2 /\ j2 < k
                      /\ hist[1][j1] = "enc_hash_ok"
                      /\ hist[1][j2] = "hmac_ok"
                /\ EncHashGenuine(scn[1])
                /\ TagGenuine(scn[1])
        /\ (Has(1, "enc_hash_fail") \/ Has(1, "hmac_fail")) =>
              /\ ~DecryptAttempted(1)
              /\ PMReturned(1)
              /\ ~PMResult(1).success
              /\ PMResult(1).media = None

C1_Witness ==
    /\ call[1].op = "save_media" /\ Done(1)
    /\ Has(1, "hmac_ok") /\ Has(1, "decrypt_error")

\* ------------------------------------------------------------------------
\* C2: process_media returns success only when the encrypted-hash check, the
\* HMAC check, the decryption and the plaintext-hash check all passed in
\* that run, on a blob and descriptor for which they ought to pass, and the
\* bytes returned are the decrypted plaintext (the source); this holds for
\* every setting of debug_mode and keep_temp_files.
\* ------------------------------------------------------------------------
SuccessOnlyAfterAllChecks ==
    (PMReturned(1) /\ PMResult(1).success) =>
        /\ Has(1, "enc_hash_ok") /\ Has(1, "hmac_ok")
        /\ Has(1, "decrypt_ok") /\ Has(1, "plaintext_hash_ok")
        /\ EncHashGenuine(scn[1]) /\ TagGenuine(scn[1])
        /\ scn[1].variant = "good" /\ PlainHashGenuine(scn[1])
        /\ PMResult(1).media = call[1].decrypted_media
        /\ PMResult(1).media = scn[1].src

C2_Witness ==
    /\ call[1].op = "process_media" /\ Done(1) /\ ret[1].success
    /\ self[1].debug_mode /\ self[1].keep_temp_files
    /\ ret[1].media = <<104>>

\* ------------------------------------------------------------------------
\* C3: after a successful download process_media fails closed with the
\* reason of the earliest failing stage: a storage fault while writing the
\* raw artifact, else a wrong encrypted hash, else a wrong tag, else a
\* decryption fault, else a storage fault while writing the decrypted
\* artifact, else a wrong plaintext hash; none of these is ever a success.
\* ------------------------------------------------------------------------
FailClosedEarliestStage ==
    (PMReturned(1) /\ DownloadSucceeded(1)) =>
        LET sc == scn[1]
            r == PMResult(1)
            faultReasons(texts) == {Failure("Error during processing: " \o t) : t \in texts}
        IN  IF RawWriteFault(1) THEN r \in faultReasons(StorageFaultTexts)
            ELSE IF ~EncHashGenuine(sc)
                 THEN r = Failure("Encrypted file hash verification failed")
            ELSE IF ~TagGenuine(sc) THEN r = Failure("HMAC validation failed")
            ELSE IF ~Decryptable(sc) THEN r \in faultReasons(DecryptionFaultTexts)
            ELSE IF DecryptedWriteFault(1) THEN r \in faultReasons(StorageFaultTexts)
            ELSE IF ~PlainHashGenuine(sc)
                 THEN r = Failure("Plaintext hash verification failed")
            ELSE TRUE

C3_Witness ==
    /\ call[1].op = "process_media" /\ Done(1)
    /\ scn[1].eh = "b64" /\ scn[1].variant = "good" /\ scn[1].ph = "wrong"
    /\ ret[1] = Failure("Plaintext hash verification failed")

\* ------------------------------------------------------------------------
\* C4: no call of process_media, save_media or bypass_verifications ends in
\* an exception; a finished call has returned a tuple with a reason, a write
\* that faulted has made it a failure, and a result of process_media carries
\* bytes exactly when it is a success.
\* ------------------------------------------------------------------------
NeverRaises ==
    /\ ret[1].status /= "raised"
    /\ call[1].pm.status /= "raised"
    /\ Done(1) =>
          /\ ret[1].status = "returned"
          /\ ret[1].message /= ""
          /\ (\E outcome \in WriteOutcomes \ {"ok"} :
                \E k \in 1..Len(call[1].env) : call[1].env[k] = outcome)
                => ~ret[1].success
    /\ PMReturned(1) =>
          /\ PMResult(1).message /= ""
          /\ PMResult(1).success <=> PMResult(1).media /= None

C4_Witness ==
    /\ call[1].op = "process_media" /\ Done(1)
    /\ ~self[1].keep_temp_files
    /\ Has(1, "decrypt_error")
    /\ ret[1] = Failure("Error during processing: Padding is incorrect.")

\* ------------------------------------------------------------------------
\* C7: when the transport refuses the download the run is over: the one
\* download attempt is the only stage of the run, no file has changed, and
\* the call returns the failure that carries the transport's error.
\* ------------------------------------------------------------------------
DownloadErrorEndsRun ==
    /\ Cardinality({k \in 1..Len(hist[1]) :
            hist[1][k] \in {"download_ok", "download_fail"}}) <= 1
    /\ DownloadRefused(1) =>
          /\ hist[1] = <<"download_fail">>
          /\ fs[world[1]] = fs0
          /\ Done(1) =>
                ret[1] = Failure("Error during processing: 404 Client Error: "
                                 \o "Not Found for url: " \o CdnUrl)

C7_Witness ==
    /\ call[1].op = "save_media" /\ Done(1) /\ DownloadRefused(1)
    /\ self[1].debug_mode /\ self[1].keep_temp_files

\* ------------------------------------------------------------------------
\* C5: once a run of the verified pipeline is over, an artifact it wrote
\* (<file_name>.raw, <file_name>.decrypted) is still on storage only if the
\* call succeeded and keep_temp_files was set.
\* ------------------------------------------------------------------------
ArtifactsGoneUnlessKeptOnSuccess ==
    (Verified(1) /\ Done(1)) =>
        \A k \in 1..Len(call[1].temp_files_created) :
            Exists(Files(1), call[1].temp_files_created[k]) =>
                ret[1].success /\ self[1].keep_temp_files

\* ------------------------------------------------------------------------
\* C6: a run that passed the hash and HMAC checks and failed in the
\* decryption stage reports the reason that a malformed padding gets,
\* whatever the kind of the decryption fault.
\* ------------------------------------------------------------------------
PaddingFailureReason ==
    "Error during processing: "
        \o DecryptMedia(EncKey, Iv, AllButLastN(BlobOf(<<>>, "badpad"), TagLen)).err

DecryptionReasonIsGeneric ==
    (PMReturned(1) /\ Has(1, "decrypt_error")) =>
        PMResult(1).message = PaddingFailureReason

\* ------------------------------------------------------------------------
\* C8: save_media touches the output path only after the verified pipeline
\* succeeded: after a failure of process_media the files at output_path and
\* at the default path are as they were and the result is (False, reason of
\* process_media); after a successful save the file at the output path holds
\* exactly the verified plaintext.
\* ------------------------------------------------------------------------
OutputPathOf(i) ==
    IF call[i].output_path = NoPath THEN self[i].file_name ELSE call[i].output_path

SaveWritesOnlyVerifiedPlaintext ==
    (call[1].op = "save_media" /\ Done(1)) =>
        /\ ret[1].success => call[1].pm.success
        /\ ~call[1].pm.success =>
              /\ ret[1] = Failure(call[1].pm.message)
              /\ Files(1)[OutputPathOf(1)] = fs0[OutputPathOf(1)]
              /\ Files(1)[self[1].file_name] = fs0[self[1].file_name]
        /\ ret[1].success =>
              /\ ret[1].message = OutputPathOf(1)
              /\ Files(1)[OutputPathOf(1)] = scn[1].src

\* ------------------------------------------------------------------------
\* C9: bypass_verifications does download, strip the last 10 bytes, decrypt,
\* persist and none of the three checks: two instances that agree on URL,
\* key, IV, file name and ciphertext and differ in encrypted_hash,
\* plaintext_hash, hmac_key or tag return the same result and leave the same
\* files; and the verified calls never enter it.
\* ------------------------------------------------------------------------
BypassEvents ==
    {"download_ok", "download_fail", "decrypt_ok", "decrypt_error",
     "write_output_ok", "write_output_open_error", "write_output_write_error",
     "cleanup"}

BypassIgnoresIntegrityFields ==
    /\ \A i \in DOMAIN call :
          call[i].op = "bypass_verifications" =>
            /\ \A k \in 1..Len(hist[i]) : hist[i][k] \in BypassEvents
            /\ (Done(i) /\ ret[i].success) =>
                  /\ hist[i] = <<"download_ok", "decrypt_ok", "write_output_ok", "cleanup">>
                  /\ call[i].ciphertext = AllButLastN(CdnContent(i), TagLen)
                  /\ call[i].decrypted_media = scn[i].src
    /\ (2 \in DOMAIN call /\ Done(2)) =>
          /\ ret[2] = ret[1]
          /\ fs[world[2]] = fs[world[1]]
          /\ hist[2] = hist[1]
    /\ Verified(1) =>
          /\ call[1].pc \notin {"bv_download", "bv_decrypt", "bv_write", "bv_cleanup"}
          /\ Has(1, "write_output_ok") => Has(1, "plaintext_hash_ok")

C9_Witness ==
    /\ 2 \in DOMAIN call /\ Done(2) /\ ret[2].success
    /\ scn[1].variant = "good" /\ scn[2].variant = "badtag"
    /\ scn[2].eh = "none" /\ scn[2].ph = "wrong" /\ scn[2].hk = "other"
    /\ fs[world[2]][FileName] = <<104>>

\* ------------------------------------------------------------------------
\* decrypt_request under FlowSpec
\* ------------------------------------------------------------------------
\* the request of the last call, and whether its AES key unwraps
FlowRequest == ecall.request[1]
Unwraps == enc.PRIVATE_KEY = WrappedFor(FlowRequest)
\* the envelope was sealed under another (key, IV, body, tag) than the
\* one decrypt_request is given
TagForged == FlowRequest.tamper.kind \in {"flip", "iv"}

\* C10: decrypt_request never returns plaintext that failed authentication.
\* When the AES key unwraps and the tag at the end of the envelope does not
\* belong to the body under that key and the supplied IV (any one bit of the
\* body or of the tag flipped, or another IV supplied), the call raises
\* InvalidTag and returns no object, key or IV; and whenever the call does
\* return, the envelope was a sound one and what it returns is the object
\* that was sealed, with the key and the IV of the request.
NoPlaintextWithoutAuthentication ==
    ecall.op = "decrypt_request" =>
        /\ (Unwraps /\ TagForged) => eret = ERaised("InvalidTag")
        /\ eret.status = "raised" =>
                /\ eret.decrypted_data = None
                /\ eret.aes_key = None
                /\ eret.iv = None
        /\ eret.status = "returned" =>
                /\ Unwraps
                /\ FlowRequest.tamper.kind \in {"none", "otherkey"}
                /\ eret.decrypted_data = FlowRequest.obj
                /\ eret.aes_key = FlowRequest.key
                /\ eret.iv = FlowRequest.iv

\* one bit of the last tag byte of a two-member object's envelope was
\* flipped, the key unwrapped, and the call raised InvalidTag
C10_Witness ==
    /\ ecall.op = "decrypt_request"
    /\ Unwraps
    /\ FlowRequest.tamper.kind = "flip"
    /\ FlowRequest.tamper.at = 1
    /\ FlowRequest.obj = <<97, 1, 98, 2>>
    /\ eret = ERaised("InvalidTag")

\* ------------------------------------------------------------------------
\* encrypt_response under FlowSpec
\* ------------------------------------------------------------------------
\* the arguments of the last call of encrypt_response
ResponseArg == ecall.request[1]
KeyArg == ecall.request[2]
IvArg == ecall.request[3]
\* what the returned text decodes to: ciphertext, then the last 16 bytes
SentBody == AllButLastN(B64Decode(eret.text), GcmTagLen)
SentTag == LastN(B64Decode(eret.text), GcmTagLen)

\* C11: encrypt_response encrypts under the bitwise complement of the IV it
\* is given.  The IV it derives is the complement, which has the length of
\* the IV, differs from it in every byte and has the IV as its complement;
\* and the envelope it returns is sealed under the key and that complement
\* and not under the IV itself, so the response nonce is never the request
\* nonce.
ResponseNonceIsComplement ==
    ecall.op = "encrypt_response" =>
        /\ FlippedIv(IvArg) = Complement(IvArg)
        /\ Len(FlippedIv(IvArg)) = Len(IvArg)
        /\ \A k \in 1..Len(IvArg) : FlippedIv(IvArg)[k] /= IvArg[k]
        /\ FlippedIv(FlippedIv(IvArg)) = IvArg
        /\ eret.status = "returned" =>
                /\ Complement(IvArg) /= IvArg
                /\ GcmTag(KeyArg, Complement(IvArg), SentBody) = SentTag
                /\ GcmCrypt(KeyArg, Complement(IvArg), SentBody) = JsonDumps(ResponseArg)
                /\ GcmTag(KeyArg, IvArg, SentBody) /= SentTag

\* a two-member object was sealed under an IV of mixed bytes
C11_Witness ==
    /\ ecall.op = "encrypt_response"
    /\ eret.status = "returned"
    /\ IvArg = <<0, 255, 128, 127, 1, 254, 85, 170>>
    /\ ResponseArg = <<97, 1, 98, 2>>

\* ------------------------------------------------------------------------
\* Sequences of calls under ExchangeSpec
\* ------------------------------------------------------------------------
EncryptReturned(e) == e.call.op = "encrypt_response" /\ e.ret.status = "returned"
\* d is the call that hands the envelope of e back: the same key wrapped for
\* the instance's key pair, the complement of the IV
HandsBack(e, d) ==
    /\ d.call.op = "decrypt_request"
    /\ d.call.args = <<e.ret.text,
                       B64Encode(OaepEncrypt(enc.PRIVATE_KEY, e.call.args[2])),
                       B64Encode(Complement(e.call.args[3]))>>

\* C12: round trip.  The text encrypt_response(O, K, V) returns is the
\* base64 of a ciphertext as long as json.dumps(O) followed by a 16-byte
\* tag; it authenticates under K and the complement of V and decrypts to O;
\* and decrypt_request, given that text, K wrapped for the instance's key
\* pair and the base64 of the complement of V, returns O, K and the
\* complement of V.
ResponseRoundTrip ==
    \A n \in 1..Len(elog) :
        EncryptReturned(elog[n]) =>
            LET O == elog[n].call.args[1]
                K == elog[n].call.args[2]
                V == elog[n].call.args[3]
                sent == B64Decode(elog[n].ret.text)
                body == AllButLastN(sent, GcmTagLen)
                tag == LastN(sent, GcmTagLen)
            IN  /\ sent /= DecodeError
                /\ B64Encode(sent) = elog[n].ret.text
                /\ Len(sent) = Len(JsonDumps(O)) + GcmTagLen
                /\ GcmTag(K, Complement(V), body) = tag
                /\ JsonLoads(GcmCrypt(K, Complement(V), body)) = O
                /\ (n < Len(elog) /\ HandsBack(elog[n], elog[n + 1])) =>
                        elog[n + 1].ret = EReturned3(O, K, Complement(V))

\* the envelope of a two-member object sealed under an IV of mixed bytes
\* was handed back and decrypt_request returned
C12_Witness ==
    /\ Len(elog) = 2
    /\ EncryptReturned(elog[1])
    /\ elog[1].call.args[1] = <<97, 1, 98, 2>>
    /\ elog[1].call.args[3] = <<0, 255, 128, 127, 1, 254, 85, 170>>
    /\ HandsBack(elog[1], elog[2])
    /\ elog[2].ret.status = "returned"

\* ------------------------------------------------------------------------
\* Interleaved runs under SharedSpec
\* ------------------------------------------------------------------------
\* the files a run leaves: its two artifacts and the output it was to write
OwnPaths(i) ==
    TempPaths(self[i].file_name)
        \cup (IF call[i].op \in {"save_media", "bypass_verifications"}
              THEN {OutputPathOf(i)} ELSE {})

\* C13: runs on two instances interleave without affecting one another.
\* When the calls of instances 1 and 2 are over, and the call of instance 1
\* has been made alone as well, the interleaved call returned what the lone
\* call returned and left the files the lone call left.
InterleavingIsInvisible ==
    (BothOver /\ call[3].pc = "done") =>
        /\ ret[1] = ret[3]
        /\ \A path \in OwnPaths(1) : fs[world[1]][path] = fs[world[3]][path]

\* ------------------------------------------------------------------------
\* The two hash checks under HashSpec
\* ------------------------------------------------------------------------
\* the two forms the checks are to accept: the lowercase hex digest of the
\* content and the base64 of that digest
DigestForms == {"hex", "b64"}

\* C14: dual-encoding acceptance.  verify_enc_hash passes exactly when
\* encrypted_hash is the hex digest of the blob or the base64 of that
\* digest, verify_plaintext_hash passes exactly when plaintext_hash is the
\* hex digest of the plaintext or the base64 of that digest, and a call
\* succeeds only when both fields have one of these two forms.
DualEncodingAcceptance ==
    /\ Has(1, "enc_hash_ok") => scn[1].eh \in DigestForms
    /\ Has(1, "enc_hash_fail") => scn[1].eh \notin DigestForms
    /\ Has(1, "plaintext_hash_ok") => scn[1].ph \in DigestForms
    /\ Has(1, "plaintext_hash_fail") => scn[1].ph \notin DigestForms
    /\ (Done(1) /\ ret[1].success) =>
            scn[1].eh \in DigestForms /\ scn[1].ph \in DigestForms

\* ------------------------------------------------------------------------
\* C15: media determinism.  For a blob made as a producer makes it (padded
\* source, CBC under key and IV, the 10-byte tag of the HMAC key) and a
\* descriptor whose two hashes match, a process_media whose download
\* succeeded has returned Success with the bytes of the source, whatever
\* debug_mode and keep_temp_files are.
\* ------------------------------------------------------------------------
SoundBlobAlwaysSucceeds ==
    (/\ call[1].op = "process_media" /\ Done(1)
     /\ DownloadSucceeded(1)
     /\ scn[1].variant = "good" /\ scn[1].hk = "right"
     /\ scn[1].eh \in {"hex", "b64"} /\ scn[1].ph \in {"hex", "b64"})
        => /\ ret[1].status = "returned"
           /\ ret[1].success
           /\ ret[1].media = scn[1].src

\* ------------------------------------------------------------------------
\* C16: a blob of 10 bytes or fewer, whose ciphertext is empty once the
\* trailing bytes are taken as the tag, never yields a plaintext, a success
\* or a write of the output: process_media, save_media and
\* bypass_verifications all return a failure for it, also when the
\* descriptor's hashes and HMAC key are consistent with the blob.
\* ------------------------------------------------------------------------
ShortBlobNeverSucceeds ==
    (scn[1] /= NoScenario /\ Len(CdnContent(1)) <= TagLen) =>
        /\ ~Has(1, "decrypt_ok")
        /\ \A outcome \in WriteOutcomes : ~Has(1, "write_output_" \o outcome)
        /\ call[1].pm.status /= "none" => ~call[1].pm.success
        /\ Done(1) => ret[1].status = "returned" /\ ~ret[1].success

\* a blob that is exactly the tag of the empty ciphertext, with the hash
\* of that blob in the descriptor: both checks passed and unpad refused
C16_Witness ==
    /\ scn[1].variant = "short" /\ scn[1].eh = "hex" /\ scn[1].hk = "right"
    /\ call[1].op = "save_media" /\ Done(1)
    /\ Has(1, "enc_hash_ok") /\ Has(1, "hmac_ok") /\ Has(1, "decrypt_error")
    /\ ret[1] = Failure("Error during processing: Zero-length input cannot be unpadded")

\* ------------------------------------------------------------------------
\* C17: the flow cipher keeps no state between calls.  Once constructed,
\* the instance's fields never change; two calls of one method with the
\* same arguments have the same result wherever they stand in the sequence
\* of calls; what encrypt_response returns is sealed under the key and the
\* complement of the IV among its own arguments, whatever requests were
\* decrypted before; and what decrypt_request returns is the object, key
\* and IV of its own request.
\* ------------------------------------------------------------------------
\* what a call of encrypt_response is to produce from its arguments alone
SealedByArguments(e) ==
    LET O == e.call.args[1]
        K == e.call.args[2]
        V == e.call.args[3]
        sent == B64Decode(e.ret.text)
        body == AllButLastN(sent, GcmTagLen)
    IN  IF Len(K) \in AesKeyLens /\ Len(V) >= 8
        THEN /\ e.ret.status = "returned"
             /\ GcmTag(K, Complement(V), body) = LastN(sent, GcmTagLen)
             /\ GcmCrypt(K, Complement(V), body) = JsonDumps(O)
        ELSE e.ret = ERaised("ValueError")

\* what a call of decrypt_request is to produce from its request alone
OpenedByRequest(d) ==
    LET sc == d.call.request[1]
    IN  IF enc.PRIVATE_KEY = WrappedFor(sc) /\ sc.tamper.kind \in {"none", "otherkey"}
        THEN d.ret = EReturned3(sc.obj, sc.key, sc.iv)
        ELSE d.ret.status = "raised"

CallsAreIndependent ==
    /\ enc /= NoEnc => enc.PRIVATE_KEY = KeyFileOf(enc.private_key_path)
    /\ \A i, j \in 1..Len(elog) :
            (/\ elog[i].call.op = elog[j].call.op
             /\ elog[i].call.args = elog[j].call.args) => elog[i].ret = elog[j].ret
    /\ \A n \in 1..Len(elog) :
            IF elog[n].call.op = "encrypt_response" THEN SealedByArguments(elog[n])
            ELSE OpenedByRequest(elog[n])

NoPerExchangeState ==
    /\ []CallsAreIndependent
    /\ [][enc /= NoEnc => enc' = enc]_vars

\* a request was decrypted, then a response was sealed under another key
\* and another IV than those of the request
C17_Witness ==
    /\ Len(elog) = 2
    /\ elog[1].call.op = "decrypt_request" /\ elog[1].ret.status = "returned"
    /\ elog[2].call.op = "encrypt_response" /\ elog[2].ret.status = "returned"
    /\ elog[2].call.args[2] /= elog[1].ret.aes_key
    /\ elog[2].call.args[3] /= elog[1].ret.iv

====
